---------------------------- MODULE Spec2Model ----------------------------
(***************************************************************************)
(* A model of the ARC protocol server (src/src/server/index.ts): the       *)
(* method registry, handleRequest with its suspension points (the await of *)
(* the auth validator and the await of the handler), and the Express       *)
(* middleware with its event-stream branch; and of the streaming reader of *)
(* the ARC client (ARCClient.handleStreamingRequest), which reads the      *)
(* event stream back from the chunks of the transport.                     *)
(*                                                                         *)
(* JavaScript values are encoded as strings so that every field of a       *)
(* record has one type: Absent is a property that is not in the object,    *)
(* Undefined and Null are the two JavaScript values, "#0" is the number 0  *)
(* (a number n is "#n"), every other string is itself.                     *)
(***************************************************************************)
EXTENDS Integers, Sequences, FiniteSets, TLC

VARIABLES
    handlers,        \* ARCServer.handlers: method name -> handler, own properties only
    requiredScopes,  \* ARCServer.requiredScopes: method name -> scope set, own properties only
    enableAuth,      \* ARCServer.enableAuth
    enableAuthOption, \* the enableAuth member of the options the server was made with
    hasValidator,    \* whether ARCServer.authValidator is defined
    pc,              \* position of the request being served
    path,            \* "none", "unary" (handleRequest) or "stream" (event-stream branch)
    request,         \* the request body being served
    authHeader,      \* the Authorization header of the request being served
    validatorCalls,  \* tokens the auth validator was called with, for this request
    authResult,      \* the validator's decision, once it has resolved
    invoked,         \* handler invocations made for this request
    response,        \* the envelope handed to the caller (res.json), when there is one
    wire,            \* frames written with res.write on the event-stream branch
    thrown,          \* what the handler, the validator or the producer threw, for this request
    inFlight,        \* frames written with res.write that the socket has not drained
    extra,           \* frames the transport delivers after the ones the server wrote
    delivered,       \* ARCClient: how much of the byte stream reader.read() has returned
    buffer,          \* ARCClient.handleStreamingRequest: buffer
    yielded,         \* ARCClient.handleStreamingRequest: the data it has yielded
    reader,          \* ARCClient.handleStreamingRequest: "none", "reading" or "released"
    calls,           \* ARCClient.sendRequest: the calls made, each with its promise
    clientTimeout    \* ARCClient: this.timeout

vars == <<handlers, requiredScopes, enableAuth, enableAuthOption, hasValidator, pc, path,
          request, authHeader, validatorCalls, authResult, invoked, response,
          wire, thrown, inFlight, extra, delivered, buffer, yielded, reader,
          calls, clientTimeout>>

\* the state of the client's streaming reader and of the transport
callVars == <<calls, clientTimeout>>
clientVars == <<extra, delivered, buffer, yielded, reader, callVars>>
streamVars == <<inFlight, extra, delivered, buffer, yielded, reader, callVars>>

-----------------------------------------------------------------------------
(* Bounds *)

\* fragments a streamed message yields at most
MaxFragments == 2

\* fields in which a request body differs from the nominal request at most
MaxDeviations == 1

-----------------------------------------------------------------------------
(* JavaScript values *)

Absent == "<absent>"
Undefined == "<undefined>"
Null == "<null>"

\* ToBoolean of the values the model uses
Falsy(v) == v \in {Absent, Undefined, Null, "", "#0"}

\* a || b
OrElse(a, b) == IF Falsy(a) THEN b ELSE a

\* obj.field for a property that may not be there
Get(v) == IF v = Absent THEN Undefined ELSE v

\* An optional value is a set: {} when it is not there, {v} when it is v.
None == {}
Some(v) == {v}
The(o) == CHOOSE v \in o : TRUE

\* Names every object inherits from Object.prototype, the ones the model
\* lets a request use as its method.
ProtoNames == {"toString"}

-----------------------------------------------------------------------------
(* The server's identity and the values requests are drawn from *)

AgentId == "agent-1"

RegMethods == {"chat.start", "task.create"}
HandlerIds == {"h1", "h2"}
ProtoHandler == "Object.prototype.toString"

Scopes == {"arc.chat.controller", "arc.task.controller", "arc.agent.caller"}

\* the scope arrays setRequiredScopes is called with
ScopeArrays == {{"arc.agent.caller"}}

\* the constructor's default requiredScopes table, for the methods of the model
DefaultRequiredScopes ==
    [m \in RegMethods |->
        IF m = "task.create"
        THEN {{"arc.task.controller", "arc.agent.caller"}}
        ELSE {{"arc.chat.controller", "arc.agent.caller"}}]

\* options.requiredScopes = {}
EmptyRequiredScopes == [m \in RegMethods |-> {}]

\* the decisions the auth validator can resolve to: scopes is None when the
\* AuthResult has no scopes property
AuthResults ==
    [authenticated : BOOLEAN,
     scopes : {None, Some({"arc.agent.caller"}), Some(Scopes)}]

\* the request a well-behaved client sends; the requests of the model differ
\* from it in at most MaxDeviations fields
NominalRequest ==
    [shape |-> "object", arc |-> "1.0", id |-> "r1", method |-> "chat.start",
     requestAgent |-> "client-1", targetAgent |-> "agent-1", params |-> "plain",
     traceId |-> Absent]

NullRequest ==
    [shape |-> "null", arc |-> Absent, id |-> Absent, method |-> Absent,
     requestAgent |-> Absent, targetAgent |-> Absent, params |-> Absent,
     traceId |-> Absent]

ObjectRequests ==
    [shape : {"object"},
     arc : {Absent, "1.0", "2.0"},
     id : {Absent, "r1", "", "#0"},
     method : {Absent, "chat.start", "task.create", "toString"},
     requestAgent : {Absent, "client-1", ""},
     targetAgent : {Absent, "agent-1", "agent-2"},
     params : {Absent, "plain", "stream"},
     traceId : {Absent, "t1", ""}]

FieldNames == {"arc", "id", "method", "requestAgent", "targetAgent", "params", "traceId"}

FieldOf(r, f) ==
    CASE f = "arc" -> r.arc
      [] f = "id" -> r.id
      [] f = "method" -> r.method
      [] f = "requestAgent" -> r.requestAgent
      [] f = "targetAgent" -> r.targetAgent
      [] f = "params" -> r.params
      [] f = "traceId" -> r.traceId

Deviations(r, nominal) ==
    Cardinality({f \in FieldNames : FieldOf(r, f) # FieldOf(nominal, f)})

\* Request bodies handleRequest is called with: null, a JSON string, and objects
Requests ==
    {NullRequest, [NullRequest EXCEPT !.shape = "string"]}
        \cup {r \in ObjectRequests : Deviations(r, NominalRequest) <= MaxDeviations}

\* the request a well-behaved client sends for a streamed chat
StreamingRequest == [NominalRequest EXCEPT !.params = "stream"]

\* Request bodies (req.body) the middleware is given: those around a streamed chat
MiddlewareRequests ==
    {r \in ObjectRequests : Deviations(r, StreamingRequest) <= MaxDeviations}

\* params.stream === true
ParamsStream(p) == p = "stream"

AuthHeaders == {Undefined, "Basic abc", "Bearer tok"}
AcceptHeaders == {"application/json", "text/event-stream"}

\* authHeader && authHeader.startsWith('Bearer ')
IsBearer(h) == (~Falsy(h)) /\ h = "Bearer tok"

\* authHeader.split(' ')[1]
TokenOf(h) == IF h = "Bearer tok" THEN "tok" ELSE Undefined

-----------------------------------------------------------------------------
(* Error objects and envelopes *)

NoDetails ==
    [supportedVersion |-> None, requestedAgent |-> None, currentAgent |-> None,
     supportedMethods |-> None, requiredScopes |-> None, providedScopes |-> None,
     name |-> None, stack |-> None, other |-> None]

\* ErrorObject: code, message (a template and the value put into it), details
ErrorObject(code, template, arg, details) ==
    [code |-> code, message |-> <<template, arg>>, details |-> details]

CodeInvalidRequest == -32600
CodeMethodNotFound == -32601
CodeInternal == -32603
CodeAgentNotFound == -41001
CodeTaskNotFound == -42001
CodeInsufficientScope == -44003
CodeInvalidVersion == -45001

\* createErrorResponse(request, error); request null is NullRequest
CreateErrorResponse(req, error) ==
    [arc |-> "1.0",
     id |-> OrElse(Get(req.id), "error"),
     responseAgent |-> AgentId,
     targetAgent |-> OrElse(Get(req.requestAgent), "unknown"),
     traceId |-> Get(req.traceId),
     result |-> Null,
     error |-> Some(error)]

\* The values a handler, the validator or a producer can throw: two Error
\* instances, an object with a code, a message and details, a string, and an
\* object without a prototype (Object.create(null))
ErrorExc ==
    [kind |-> "Error", code |-> 0, message |-> "boom", name |-> "Error", details |-> None]
TypeErrorExc ==
    [kind |-> "Error", code |-> 0, message |-> "not a function", name |-> "TypeError",
     details |-> None]
ArcExc ==
    [kind |-> "arc", code |-> CodeTaskNotFound, message |-> "Task not found",
     name |-> Absent, details |-> Some("task-9")]
StringExc ==
    [kind |-> "string", code |-> 0, message |-> "failed", name |-> Absent, details |-> None]
BareExc ==
    [kind |-> "bare", code |-> 0, message |-> Absent, name |-> Absent, details |-> None]

\* String(error) of the TypeError that String(Object.create(null)) throws
CannotConvertExc ==
    [kind |-> "Error", code |-> 0, message |-> "Cannot convert object to primitive value",
     name |-> "TypeError", details |-> None]

Exceptions == {ErrorExc, TypeErrorExc, ArcExc, StringExc, BareExc}

\* line 456: String(error) throws for an object that has neither toString
\* nor valueOf; createErrorFromException then throws in its turn
StringThrows(exc) == exc.kind = "bare"

\* createErrorFromException(error) where it returns, with production =
\* (NODE_ENV === 'production')
CreateErrorFromException(exc, production) ==
    IF exc.kind = "arc"
    THEN ErrorObject(exc.code, exc.message, "", [NoDetails EXCEPT !.other = exc.details])
    ELSE IF exc.kind = "Error"
    THEN ErrorObject(CodeInternal, OrElse(exc.message, "Internal server error"), "",
                     [NoDetails EXCEPT !.name = Some(exc.name),
                                       !.stack = IF production THEN None ELSE Some("stack")])
    ELSE ErrorObject(CodeInternal, OrElse(exc.message, "Internal server error"), "", NoDetails)

-----------------------------------------------------------------------------
(* The registry *)

\* name in obj, for an object literal: own properties and Object.prototype's
HasOwn(obj, name) == name \in DOMAIN obj /\ obj[name] # {}
In(obj, name) == HasOwn(obj, name) \/ name \in ProtoNames

\* handlers is kept as method -> {} or {handler}
\* getSupportedMethods(): Object.keys(this.handlers)
GetSupportedMethods(h) == {m \in DOMAIN h : h[m] # {}}

\* this.handlers[method] read as the handler the method was first registered
\* with
LookupFirstRegistered(h, method) ==
    IF HasOwn(h, method) THEN "h1"
    ELSE IF method \in ProtoNames THEN ProtoHandler
    ELSE Undefined

\* this.handlers[method]: the own property, else the inherited function
LookupHandler(h, method) ==
    IF HasOwn(h, method) THEN The(h[method])
    ELSE IF method \in ProtoNames THEN ProtoHandler
    ELSE Undefined

\* The request being served reads the registry on entry and again after the
\* await of the validator, and at no later point: a registration made later
\* in its service is one made before the next request.
RegistryIsRead == pc \in {"idle", "awaitAuth"}

\* registerHandler as this.handlers = {[method]: handler}
RegisterHandlerAlone(m, h) ==
    /\ RegistryIsRead
    /\ handlers' = [n \in DOMAIN handlers |-> IF n = m THEN {h} ELSE {}]
    /\ UNCHANGED <<requiredScopes, enableAuth, enableAuthOption, hasValidator, pc, path, request,
                   authHeader, validatorCalls, authResult, invoked, response,
                   wire, thrown, streamVars>>

\* registerHandler(method, handler)
RegisterHandler(m, h) ==
    /\ RegistryIsRead
    /\ handlers' = [handlers EXCEPT ![m] = {h}]
    /\ UNCHANGED <<requiredScopes, enableAuth, enableAuthOption, hasValidator, pc, path, request,
                   authHeader, validatorCalls, authResult, invoked, response,
                   wire, thrown, streamVars>>

\* setRequiredScopes(method, scopes)
SetRequiredScopes(m, s) ==
    /\ RegistryIsRead
    /\ requiredScopes' = [requiredScopes EXCEPT ![m] = {s}]
    /\ UNCHANGED <<handlers, enableAuth, enableAuthOption, hasValidator, pc, path, request,
                   authHeader, validatorCalls, authResult, invoked, response,
                   wire, thrown, streamVars>>

-----------------------------------------------------------------------------
(* handleRequest *)

\* lines 207-218 with params left out of requiredFields
FirstMissingWithoutParams(r) ==
    IF r.arc = Absent THEN "arc"
    ELSE IF r.id = Absent THEN "id"
    ELSE IF r.method = Absent THEN "method"
    ELSE IF r.requestAgent = Absent THEN "requestAgent"
    ELSE IF r.targetAgent = Absent THEN "targetAgent"
    ELSE Absent

\* lines 207-218: the first required field that is not in the request, or Absent
FirstMissing(r) ==
    IF r.arc = Absent THEN "arc"
    ELSE IF r.id = Absent THEN "id"
    ELSE IF r.method = Absent THEN "method"
    ELSE IF r.requestAgent = Absent THEN "requestAgent"
    ELSE IF r.targetAgent = Absent THEN "targetAgent"
    ELSE IF r.params = Absent THEN "params"
    ELSE Absent

\* line 233 with the comparison left out
IsForAnyAgent(r) == TRUE

\* line 233: targetAgent === this.agentId
IsForThisAgent(r) == r.targetAgent = AgentId

\* lines 192-259: the checks made before the Authorization header is read;
\* None when the request passes them all, else the error response
EarlyResponse(r, h) ==
    IF r.shape # "object"
    THEN Some(CreateErrorResponse(NullRequest,
            ErrorObject(CodeInvalidRequest, "Invalid request: Request must be a JSON object", "", NoDetails)))
    ELSE IF FirstMissing(r) # Absent
    THEN Some(CreateErrorResponse(r,
            ErrorObject(CodeInvalidRequest, "Invalid request: Missing required field", FirstMissing(r), NoDetails)))
    ELSE IF r.arc # "1.0"
    THEN Some(CreateErrorResponse(r,
            ErrorObject(CodeInvalidVersion, "Invalid ARC version: ", r.arc,
                        [NoDetails EXCEPT !.supportedVersion = Some("1.0")])))
    ELSE IF ~IsForThisAgent(r)
    THEN Some(CreateErrorResponse(r,
            ErrorObject(CodeAgentNotFound, "Agent not found: ", r.targetAgent,
                        [NoDetails EXCEPT !.requestedAgent = Some(r.targetAgent),
                                          !.currentAgent = Some(AgentId)])))
    ELSE IF ~In(h, r.method)
    THEN Some(CreateErrorResponse(r,
            ErrorObject(CodeMethodNotFound, "Method not found: ", r.method,
                        [NoDetails EXCEPT !.supportedMethods = Some(GetSupportedMethods(h))])))
    ELSE None

\* line 271 without this.enableAuth
CallsValidatorWhenDisabled(hdr) == IsBearer(hdr) /\ hasValidator

\* line 271: the validator is awaited
CallsValidator(hdr) == IsBearer(hdr) /\ enableAuth /\ hasValidator

\* lines 278-282: requiredScopes.every(scope => authResult.scopes?.includes(scope))
HasRequiredScopes(required, decision) ==
    \A scope \in required : decision.scopes # None /\ scope \in The(decision.scopes)

\* lines 277-297 for a resolved decision: "pass", "insufficient", or "throw"
\* when requiredScopes[method] is an inherited function, which has no every
ScopeCheck(rs, method, decision) ==
    IF decision.authenticated /\ In(rs, method)
    THEN IF ~HasOwn(rs, method) THEN "throw"
         ELSE IF HasRequiredScopes(The(rs[method]), decision) THEN "pass"
         ELSE "insufficient"
    ELSE "pass"

InsufficientScopeResponse(r, rs, decision) ==
    CreateErrorResponse(r,
        ErrorObject(CodeInsufficientScope, "Insufficient OAuth2 scope", "",
                    [NoDetails EXCEPT !.requiredScopes = Some(The(rs[r.method])),
                                      !.providedScopes = decision.scopes]))

\* lines 301-316: the context is built and the handler called; the call is
\* recorded with what the handler receives
Invocation(r, h, hdr, decision) ==
    [handler |-> LookupHandler(h, r.method),
     params |-> r.params,
     request_id |-> r.id,
     method |-> r.method,
     request_agent |-> r.requestAgent,
     target_agent |-> r.targetAgent,
     trace_id |-> Get(r.traceId),
     token |-> TokenOf(hdr),
     authenticated |-> IF decision = None THEN FALSE ELSE The(decision).authenticated]

\* a task record {taskId, status} as a handler returns it, and the result
\* {type: "task", task: record} made of it
TaskRecord == "{taskId, status}"
TaskResultOf(record) == "{type: task, task: " \o record \o "}"

\* lines 318-332 with the handler's return value put into a task result
SuccessResponseWrapping(r, result) ==
    [arc |-> "1.0",
     id |-> r.id,
     responseAgent |-> AgentId,
     targetAgent |-> r.requestAgent,
     traceId |-> IF Falsy(r.traceId) THEN Absent ELSE r.traceId,
     result |-> TaskResultOf(result),
     error |-> None]

\* lines 318-332: the success envelope
SuccessResponse(r, result) ==
    [arc |-> "1.0",
     id |-> r.id,
     responseAgent |-> AgentId,
     targetAgent |-> r.requestAgent,
     traceId |-> IF Falsy(r.traceId) THEN Absent ELSE r.traceId,
     result |-> result,
     error |-> None]

\* what a registered handler can return: a task result, nothing, and a chat
\* result whose message has a stream() function
HandlerResults == {"taskResult", Undefined, "chatStream"}

\* Object.prototype.toString called as a handler, with this undefined
ProtoResult == "[object Undefined]"

registry == <<handlers, requiredScopes, enableAuth, enableAuthOption, hasValidator>>

\* handleRequest(requestData, authHeader) from its entry to its first await
\* or its return
HandleRequestStart(r, hdr) ==
    /\ pc = "idle"
    /\ request' = r
    /\ authHeader' = hdr
    /\ path' = "unary"
    /\ authResult' = None
    /\ wire' = <<>>
    /\ thrown' = <<>>
    /\ LET early == EarlyResponse(r, handlers) IN
       IF early # None
       THEN /\ response' = <<The(early)>>
            /\ validatorCalls' = <<>>
            /\ invoked' = <<>>
            /\ pc' = "done"
       ELSE IF CallsValidator(hdr)
       THEN /\ response' = <<>>
            /\ validatorCalls' = <<TokenOf(hdr)>>
            /\ invoked' = <<>>
            /\ pc' = "awaitAuth"
       ELSE /\ response' = <<>>
            /\ validatorCalls' = <<>>
            /\ invoked' = <<Invocation(r, handlers, hdr, None)>>
            /\ pc' = "awaitHandler"
    /\ UNCHANGED <<registry, streamVars>>

\* the validator resolved: lines 273-316, up to the await of the handler
AuthResolve(decision, production) ==
    /\ pc = "awaitAuth"
    /\ authResult' = Some(decision)
    /\ LET check == ScopeCheck(requiredScopes, request.method, decision) IN
       IF check = "insufficient"
       THEN /\ response' = <<InsufficientScopeResponse(request, requiredScopes, decision)>>
            /\ pc' = "done"
            /\ UNCHANGED invoked
       ELSE IF check = "throw"
       THEN /\ response' = <<CreateErrorResponse(request,
                                CreateErrorFromException(TypeErrorExc, production))>>
            /\ pc' = "done"
            /\ UNCHANGED invoked
       ELSE /\ invoked' = <<Invocation(request, handlers, authHeader, Some(decision))>>
            /\ pc' = "awaitHandler"
            /\ UNCHANGED response
    /\ UNCHANGED <<registry, path, request, authHeader, validatorCalls, wire, thrown,
                   streamVars>>

\* a thrown value, with the NODE_ENV it is caught under
Raised(exc, production) == [exc |-> exc, production |-> production]

\* the catch of lines 333-339: the error envelope, or nothing when
\* createErrorFromException throws and the promise of handleRequest rejects
Caught(exc, production) ==
    /\ thrown' = <<Raised(exc, production)>>
    /\ IF StringThrows(exc)
       THEN /\ response' = <<>>
            /\ pc' = "rejected"
       ELSE /\ response' = <<CreateErrorResponse(request,
                                CreateErrorFromException(exc, production))>>
            /\ pc' = "done"

\* the validator threw or rejected
AuthReject(exc, production) ==
    /\ pc = "awaitAuth"
    /\ Caught(exc, production)
    /\ UNCHANGED <<registry, path, request, authHeader, validatorCalls, authResult,
                   invoked, wire, streamVars>>

\* lines 316-332 with the handler taken out of the table once it has run
HandlerReturnOnce(result) ==
    /\ pc = "awaitHandler"
    /\ IF invoked[1].handler = ProtoHandler
       THEN result = ProtoResult
       ELSE result # ProtoResult
    /\ response' = <<SuccessResponse(request, result)>>
    /\ pc' = "done"
    /\ handlers' = [m \in DOMAIN handlers |-> IF m = request.method THEN {} ELSE handlers[m]]
    /\ UNCHANGED <<requiredScopes, enableAuth, enableAuthOption, hasValidator, path, request,
                   authHeader, validatorCalls, authResult, invoked, wire, thrown, streamVars>>

\* the handler returned (or its promise resolved): lines 316-332
HandlerReturn(result) ==
    /\ pc = "awaitHandler"
    /\ IF invoked[1].handler = ProtoHandler
       THEN result = ProtoResult
       ELSE result # ProtoResult
    /\ response' = <<SuccessResponse(request, result)>>
    /\ pc' = "done"
    /\ UNCHANGED <<registry, path, request, authHeader, validatorCalls, authResult,
                   invoked, wire, thrown, streamVars>>

\* the handler threw (or its promise rejected)
HandlerThrow(exc, production) ==
    /\ pc = "awaitHandler"
    /\ invoked[1].handler # ProtoHandler
    /\ Caught(exc, production)
    /\ UNCHANGED <<registry, path, request, authHeader, validatorCalls, authResult,
                   invoked, wire, streamVars>>

-----------------------------------------------------------------------------
(* createExpressMiddleware, for a POST to /arc *)

\* requestData?.method?.startsWith('chat.')
IsChatMethod(m) == m = "chat.start"

\* lines 501-507
IsStreamingRequest(accept, r) ==
    /\ accept = "text/event-stream"
    /\ r.shape = "object"
    /\ IsChatMethod(r.method)
    /\ ParamsStream(r.params)

\* the frames of the event stream
Frame(event, chatId, part, status, done, error) ==
    [event |-> event, chatId |-> chatId, part |-> part, status |-> status,
     done |-> done, error |-> error]

\* lines 592-596: the two frames written when the streaming branch catches
CaughtFrames(exc, production) ==
    << Frame("error", Absent, 0, Absent, FALSE,
             Some(CreateErrorFromException(exc, production))),
       Frame("done", Absent, 0, Absent, TRUE, None) >>

MethodNotFoundExc ==
    [kind |-> "Error", code |-> 0, message |-> "Method not found: ", name |-> "Error",
     details |-> None]

\* lines 509-542: the streaming branch up to the await of the handler
StreamStart(r, hdr, production) ==
    /\ pc = "idle"
    /\ request' = r
    /\ authHeader' = hdr
    /\ path' = "stream"
    /\ authResult' = None
    /\ validatorCalls' = <<>>
    /\ response' = <<>>
    /\ thrown' = <<>>
    /\ IF LookupHandler(handlers, r.method) = Undefined
       THEN /\ wire' = CaughtFrames(MethodNotFoundExc, production)
            /\ invoked' = <<>>
            /\ pc' = "done"
       ELSE /\ wire' = <<>>
            /\ invoked' = <<Invocation(r, handlers, hdr, None)>>
            /\ pc' = "streamAwaitHandler"
    /\ inFlight' = inFlight + Len(wire')
    /\ UNCHANGED <<registry, clientVars>>

\* the middleware receives a request
Receive(r, hdr, accept, production) ==
    IF IsStreamingRequest(accept, r)
    THEN StreamStart(r, hdr, production)
    ELSE HandleRequestStart(r, hdr)

\* lines 544-589: the handler returned on the streaming branch
StreamHandlerReturn(result) ==
    /\ pc = "streamAwaitHandler"
    /\ result \in HandlerResults
    /\ IF result = "chatStream"
       THEN /\ pc' = "streaming"
            /\ UNCHANGED response
       ELSE /\ response' = <<SuccessResponse(request, result)>>
            /\ pc' = "done"
    /\ UNCHANGED <<registry, path, request, authHeader, validatorCalls, authResult,
                   invoked, wire, thrown, streamVars>>

\* lines 590-598: the handler threw on the streaming branch; when
\* createErrorFromException throws nothing is written and the error goes to
\* next(error) of line 605
StreamHandlerThrow(exc, production) ==
    /\ pc = "streamAwaitHandler"
    /\ thrown' = <<Raised(exc, production)>>
    /\ IF StringThrows(exc)
       THEN /\ wire' = wire
            /\ pc' = "rejected"
       ELSE /\ wire' = CaughtFrames(exc, production)
            /\ pc' = "done"
    /\ inFlight' = inFlight + Len(wire')
    /\ UNCHANGED <<registry, path, request, authHeader, validatorCalls, authResult,
                   invoked, response, clientVars>>

\* result.chat.chatId of a streamable result
ResultChatId == "chat-1"

\* createSSEGenerator, one fragment: lines 368-377, written by lines 561-568
StreamFragment ==
    /\ pc = "streaming"
    /\ Len(wire) < MaxFragments
    /\ wire' = Append(wire, Frame("stream", ResultChatId, Len(wire) + 1, Absent, FALSE, None))
    /\ inFlight' = inFlight + 1
    /\ UNCHANGED <<registry, pc, path, request, authHeader, validatorCalls, authResult,
                   invoked, response, thrown, clientVars>>

\* the producer finished: lines 379-384, then res.end()
StreamFinish ==
    /\ pc = "streaming"
    /\ wire' = Append(wire, Frame("done", ResultChatId, 0, "ACTIVE", TRUE, None))
    /\ inFlight' = inFlight + 1
    /\ pc' = "done"
    /\ UNCHANGED <<registry, path, request, authHeader, validatorCalls, authResult,
                   invoked, response, thrown, clientVars>>

\* the producer threw: lines 385-398, then res.end(); when
\* createErrorFromException throws in the catch of the generator, the
\* generator throws and the catch of lines 590-598 writes its frames
StreamProducerThrow(exc, production) ==
    /\ pc = "streaming"
    /\ thrown' = <<Raised(exc, production)>>
    /\ wire' = wire \o
          IF StringThrows(exc)
          THEN CaughtFrames(CannotConvertExc, production)
          ELSE << Frame("error", ResultChatId, 0, Absent, FALSE,
                        Some(CreateErrorFromException(exc, production))),
                  Frame("done", ResultChatId, 0, "ACTIVE", TRUE, None) >>
    /\ inFlight' = inFlight + 2
    /\ pc' = "done"
    /\ UNCHANGED <<registry, path, request, authHeader, validatorCalls, authResult,
                   invoked, response, clientVars>>

\* the consumer of createChatStream stops iterating (return() on the
\* generator suspended at a yield of lines 368-384): the generator ends
\* there, its catch does not run and it yields nothing more
StreamCancel ==
    /\ pc = "streaming"
    /\ wire # <<>>
    /\ pc' = "canceled"
    /\ UNCHANGED <<registry, path, request, authHeader, validatorCalls, authResult,
                   invoked, response, wire, thrown, streamVars>>

\* the socket has taken what res.write buffered (lines 561-568 do not wait
\* for it: the value res.write returns is not read, 'drain' is not awaited)
Drain ==
    /\ inFlight > 0
    /\ inFlight' = 0
    /\ UNCHANGED <<registry, pc, path, request, authHeader, validatorCalls, authResult,
                   invoked, response, wire, thrown, clientVars>>

-----------------------------------------------------------------------------
(* The event stream as bytes, and the client's streaming reader             *)
(* (ARCClient.handleStreamingRequest and parseSSEEvent). The text is a      *)
(* sequence of line feeds and of atoms, an atom being the "event: <type>"   *)
(* or the "data: <json>" of one frame; a transport chunk is cut between     *)
(* any two of them, a cut inside an atom being the same to the reader as    *)
(* one next to it.                                                          *)

NoFrame == Frame("", Absent, 0, Absent, FALSE, None)
NL == [t |-> "nl", f |-> NoFrame]
EventLine(frame) == [t |-> "event", f |-> frame]
DataLine(frame) == [t |-> "data", f |-> frame]

\* `event: ${type}\ndata: ${JSON.stringify(payload)}\n\n`
Encode(frame) == <<EventLine(frame), NL, DataLine(frame), NL, NL>>

RECURSIVE Bytes(_)
Bytes(frames) ==
    IF frames = <<>> THEN <<>> ELSE Encode(Head(frames)) \o Bytes(Tail(frames))

\* JSON.parse of the data of a frame: what the frame has beside its event type
Payload(frame) ==
    [chatId |-> frame.chatId, part |-> frame.part, status |-> frame.status,
     done |-> frame.done, error |-> frame.error]

\* a data line that is not JSON is returned as the raw string (part_005:270-274)
RawData ==
    [chatId |-> "<raw string>", part |-> 0, status |-> Absent, done |-> FALSE,
     error |-> None]

\* '\n\n' is at position i of the text
IsSeparatorAt(text, i) == i < Len(text) /\ text[i].t = "nl" /\ text[i + 1].t = "nl"

\* buffer.includes('\n\n')
Includes(text) == \E i \in 1..Len(text) : IsSeparatorAt(text, i)

FirstSeparator(text) ==
    CHOOSE i \in 1..Len(text) :
        IsSeparatorAt(text, i) /\ \A j \in 1..(i - 1) : ~IsSeparatorAt(text, j)

\* text.split('\n\n', 2) of a text that includes '\n\n': the first two
\* pieces of the split, what follows the second separator being left out
SplitLimit2(text) ==
    LET i == FirstSeparator(text)
        rest == SubSeq(text, i + 2, Len(text))
    IN  << SubSeq(text, 1, i - 1),
           IF Includes(rest) THEN SubSeq(rest, 1, FirstSeparator(rest) - 1) ELSE rest >>

\* eventText.split('\n'): the lines that start with "event:" or with "data:"
IsLineStart(text, p) == text[p].t # "nl" /\ (p = 1 \/ text[p - 1].t = "nl")
IsWholeLine(text, p) == p = Len(text) \/ text[p + 1].t = "nl"
LinesOf(text, kind) == {p \in 1..Len(text) : IsLineStart(text, p) /\ text[p].t = kind}
LastLineOf(text, kind) ==
    CHOOSE p \in LinesOf(text, kind) : \A q \in LinesOf(text, kind) : q <= p

\* parseSSEEvent(eventText): the last event line and the last data line
\* win; None when one of the two is missing. A line that goes on after its
\* atom has a value that is neither an event type nor JSON.
ParseSSEEvent(text) ==
    IF LinesOf(text, "event") = {} \/ LinesOf(text, "data") = {}
    THEN None
    ELSE LET e == LastLineOf(text, "event")
             d == LastLineOf(text, "data")
         IN  Some([event |-> IF IsWholeLine(text, e) THEN text[e].f.event ELSE "<other>",
                   data |-> IF IsWholeLine(text, d) THEN Payload(text[d].f) ELSE RawData])

\* part_005:229, yield event.data
Yield(out, data) == Append(out, data)

\* part_005:218-236: the loop over the complete events of the buffer
RECURSIVE ProcessBuffer(_, _)
ProcessBuffer(text, out) ==
    IF ~Includes(text)
    THEN [buffer |-> text, yielded |-> out, returned |-> FALSE]
    ELSE LET pieces == SplitLimit2(text)
             event == ParseSSEEvent(pieces[1])
         IN  IF event = None
             THEN ProcessBuffer(pieces[2], out)
             ELSE IF (The(event)).event = "done"
             THEN [buffer |-> pieces[2], yielded |-> Yield(out, (The(event)).data),
                   returned |-> TRUE]
             ELSE ProcessBuffer(pieces[2], Yield(out, (The(event)).data))

\* JSON.stringify(response), the body res.json writes (line 589): one text
\* with no line feed in it, that starts with '{'
JsonText == [t |-> "json", f |-> NoFrame]

\* res.json(response) on the streaming branch: the envelope as the body
JsonBody(envelopes) == [i \in 1..Len(envelopes) |-> JsonText]

\* the bytes of the response body: what the server wrote, with res.json or
\* with res.write, then what the transport delivers after it
ByteStream == JsonBody(response) \o Bytes(wire \o extra)

\* the longest body: the fragments, an error frame and a done frame, and the
\* frame the transport adds, of five atoms and line feeds each
MaxBody == 5 * (MaxFragments + 3)

\* reader.read() returns the next k atoms and line feeds of the body
\* (part_005:206-236); return in the loop runs the finally of lines 238-240
ReadChunk(k) ==
    /\ path = "stream"
    /\ reader # "released"
    /\ k \in 1..(Len(ByteStream) - delivered)
    /\ LET chunk == SubSeq(ByteStream, delivered + 1, delivered + k)
           after == ProcessBuffer(buffer \o chunk, yielded)
       IN  /\ buffer' = after.buffer
           /\ yielded' = after.yielded
           /\ reader' = IF after.returned THEN "released" ELSE "reading"
    /\ delivered' = delivered + k
    /\ UNCHANGED <<registry, pc, path, request, authHeader, validatorCalls, authResult,
                   invoked, response, wire, thrown, inFlight, extra, callVars>>

\* res.end() was called and the body is read to its end: reader.read()
\* returns done (part_005:213-215), then the finally
ReadEnd ==
    /\ path = "stream"
    /\ pc \in {"done", "canceled"}
    /\ reader # "released"
    /\ delivered = Len(ByteStream)
    /\ reader' = "released"
    /\ UNCHANGED <<registry, pc, path, request, authHeader, validatorCalls, authResult,
                   invoked, response, wire, thrown, inFlight, extra, delivered, buffer,
                   yielded, callVars>>

\* a frame that is not of this server's stream
ExtraFrame == Frame("stream", "chat-2", 1, Absent, FALSE, None)

\* the transport stays open after the server's last frame and delivers one
\* more event
TransportExtra ==
    /\ path = "stream"
    /\ pc = "done"
    /\ wire # <<>>
    /\ reader # "released"
    /\ extra = <<>>
    /\ extra' = <<ExtraFrame>>
    /\ UNCHANGED <<registry, pc, path, request, authHeader, validatorCalls, authResult,
                   invoked, response, wire, thrown, inFlight, delivered, buffer, yielded,
                   reader, callVars>>

\* the request/response cycle is over; the server keeps nothing of it
Forget ==
    /\ pc \in {"done", "rejected", "canceled"}
    /\ pc' = "idle"
    /\ path' = "none"
    /\ request' = NullRequest
    /\ authHeader' = Undefined
    /\ validatorCalls' = <<>>
    /\ authResult' = None
    /\ invoked' = <<>>
    /\ response' = <<>>
    /\ wire' = <<>>
    /\ thrown' = <<>>
    /\ inFlight' = 0
    /\ UNCHANGED <<registry, clientVars>>

-----------------------------------------------------------------------------
(* ARCClient.sendRequest, not streaming: one call from the request to the
   settling of the promise it returned *)

\* the largest number of sendRequest calls in flight together
MaxCalls == 2

Calls == 1..MaxCalls

\* generateRequestId: `req_${Date.now()}_${random}`, which nothing keeps
\* from returning the id of another call
RequestIds == {"req_1", "req_2"}

\* options.timeout and the timeout argument: seconds, or left out
TimeoutOptions == {Undefined, "#0", "#5"}
DefaultTimeout == "#60"

\* constructor: this.timeout = options.timeout || 60.0
ClientTimeoutOf(option) == OrElse(option, DefaultTimeout)

\* sendRequest: timeout || this.timeout, the seconds AbortSignal.timeout gets
Deadline(timeout, default) == OrElse(timeout, default)

\* the error member of an ARC response: here a task-not-found error
ArcErrorCode == "#-42001"
ArcErrorDetails == "task-9"

\* what response.json() is given: a JSON object, the JSON null, or text that
\* is not JSON
NominalSuccess(id) ==
    [shape |-> "object", arc |-> "1.0", id |-> id, responseAgent |-> AgentId,
     targetAgent |-> "client-1", result |-> "taskResult", error |-> Null]

NominalFailure(id) ==
    [NominalSuccess(id) EXCEPT !.result = Null, !.error = "arcError"]

\* the envelope with neither a result nor an error member
EmptyEnvelope(id) ==
    [NominalSuccess(id) EXCEPT !.result = Absent, !.error = Absent]

NullBody == [NominalSuccess(Absent) EXCEPT !.shape = "null"]
TextBody == [NominalSuccess(Absent) EXCEPT !.shape = "notjson"]

ObjectResponses ==
    [shape : {"object"}, arc : {Absent, "1.0", "2.0"}, id : {Absent} \cup RequestIds,
     responseAgent : {Absent, AgentId}, targetAgent : {Absent, "client-1"},
     result : {Absent, Null, "taskResult"}, error : {Absent, Null, "arcError"}]

ResponseFields == {"arc", "id", "responseAgent", "targetAgent", "result", "error"}

ResponseFieldOf(b, f) ==
    CASE f = "arc" -> b.arc
      [] f = "id" -> b.id
      [] f = "responseAgent" -> b.responseAgent
      [] f = "targetAgent" -> b.targetAgent
      [] f = "result" -> b.result
      [] f = "error" -> b.error

ResponseDeviations(b, nominal) ==
    Cardinality({f \in ResponseFields : ResponseFieldOf(b, f) # ResponseFieldOf(nominal, f)})

\* the bodies a server, this one or another, may answer with
ResponseBodies ==
    {b \in ObjectResponses :
        \E id \in RequestIds :
            \/ ResponseDeviations(b, NominalSuccess(id)) <= MaxDeviations
            \/ ResponseDeviations(b, NominalFailure(id)) <= MaxDeviations
            \/ b = EmptyEnvelope(id)}
    \cup {NullBody, TextBody}

\* an Error as the caller sees it
ClientError(name, message, arg, code, details) ==
    [name |-> name, message |-> message, arg |-> arg, code |-> code, details |-> details]

NoOutcome == [kind |-> "none", value |-> Undefined,
              error |-> ClientError("", "", "", Undefined, Undefined)]
Resolved(value) == [NoOutcome EXCEPT !.kind = "resolved", !.value = value]
Rejected(error) == [NoOutcome EXCEPT !.kind = "rejected", !.error = error]

PlainError(message, arg) == ClientError("Error", message, arg, Undefined, Undefined)

\* validateResponse: the message of the Error it throws, or "" when it returns
RequiredResponseFields == <<"arc", "id", "responseAgent", "targetAgent">>

FirstMissingResponseField(b) ==
    LET missing == {i \in 1..Len(RequiredResponseFields) :
                       ResponseFieldOf(b, RequiredResponseFields[i]) = Absent}
    IN  IF missing = {} THEN 0 ELSE CHOOSE i \in missing : \A j \in missing : i <= j

ValidateResponseWithoutIdCheck(b, requestId) ==
    IF b.shape = "null"
      THEN ClientError("TypeError", "Cannot use 'in' operator", "", Undefined, Undefined)
    ELSE IF FirstMissingResponseField(b) # 0
      THEN PlainError("Missing required field in response",
                      RequiredResponseFields[FirstMissingResponseField(b)])
    ELSE IF b.arc # "1.0"
      THEN PlainError("Unsupported ARC version", b.arc)
    ELSE IF b.result = Absent /\ b.error = Absent
      THEN PlainError("Response must contain either result or error", "")
    ELSE PlainError("", "")

ValidateResponse(b, requestId) ==
    IF b.shape = "null"
      THEN ClientError("TypeError", "Cannot use 'in' operator", "", Undefined, Undefined)
    ELSE IF FirstMissingResponseField(b) # 0
      THEN PlainError("Missing required field in response",
                      RequiredResponseFields[FirstMissingResponseField(b)])
    ELSE IF b.arc # "1.0"
      THEN PlainError("Unsupported ARC version", b.arc)
    ELSE IF b.id # requestId
      THEN PlainError("Response ID does not match request ID", "")
    ELSE IF b.result = Absent /\ b.error = Absent
      THEN PlainError("Response must contain either result or error", "")
    ELSE PlainError("", "")

\* createError, of the error member of a response
CreateError(error) ==
    ClientError("Error", "Task not found (code: -42001)", "", ArcErrorCode, ArcErrorDetails)

\* sendRequest from response.json() to its return or throw
Settle(b, requestId) ==
    IF b.shape = "notjson"
      THEN Rejected(ClientError("SyntaxError", "Unexpected token", "", Undefined, Undefined))
    ELSE IF ValidateResponse(b, requestId).message # ""
      THEN Rejected(ValidateResponse(b, requestId))
    ELSE IF ~Falsy(b.error)
      THEN Rejected(CreateError(b.error))
    ELSE Resolved(Get(b.result))

\* the catch of sendRequest, of the DOMException the aborted fetch rejects
\* with: its name is TimeoutError or AbortError with the runtime
AbortNames == {"AbortError", "TimeoutError"}

CaughtAbort(abortName, timeout, default) ==
    IF abortName = "AbortError"
      THEN Rejected(PlainError("Request timed out after seconds", Deadline(timeout, default)))
      ELSE Rejected(ClientError(abortName, "The operation was aborted due to timeout", "",
                                Undefined, Undefined))

\* the arguments of sendRequest, with this.requestAgent: the method, the
\* sender, the target, the params and the trace id, which may be left out
ClientArgs ==
    [method : {"chat.start", "task.create"}, requestAgent : {"client-1", ""},
     targetAgent : {AgentId, "agent-2"}, params : {"plain", "stream"},
     traceId : {Undefined, "t1", ""}]

NominalArgs ==
    [method |-> "task.create", requestAgent |-> "client-1", targetAgent |-> AgentId,
     params |-> "plain", traceId |-> Undefined]

\* sendRequest: the request object, with traceId set if (traceId)
BuildRequest(id, args) ==
    [shape |-> "object", arc |-> "1.0", id |-> id, method |-> args.method,
     requestAgent |-> args.requestAgent, targetAgent |-> args.targetAgent,
     params |-> args.params,
     traceId |-> IF Falsy(args.traceId) THEN Absent ELSE args.traceId]

\* JSON.stringify(request) and the parse of the body on the server: a member
\* whose value is undefined is not written
JsonMember(v) == IF v = Undefined THEN Absent ELSE v

JsonOf(r) ==
    [shape |-> r.shape, arc |-> JsonMember(r.arc), id |-> JsonMember(r.id),
     method |-> JsonMember(r.method), requestAgent |-> JsonMember(r.requestAgent),
     targetAgent |-> JsonMember(r.targetAgent), params |-> JsonMember(r.params),
     traceId |-> JsonMember(r.traceId)]

\* a call that was not made
NoCall ==
    [state |-> "idle", id |-> Absent, args |-> NominalArgs, request |-> NullRequest,
     timeout |-> Undefined, armed |-> Undefined,
     aborted |-> FALSE, canceled |-> FALSE,
     late |-> FALSE, received |-> None, outcome |-> NoOutcome, completions |-> 0]

IsPending(call) == call.state \in {"awaitFetch", "awaitBody"}

\* the promise of an async function settles with the function's return or
\* throw
SettleCall(call, outcome) ==
    [call EXCEPT !.state = "settled", !.outcome = outcome,
                 !.completions = call.completions + 1]

\* sendRequest up to the await of fetch
SendRequest(c, id, timeout, args) ==
    /\ calls[c].state = "idle"
    /\ \A d \in Calls : d < c => calls[d].state # "idle"
    /\ calls' = [calls EXCEPT ![c] = [NoCall EXCEPT !.state = "awaitFetch", !.id = id,
                                                    !.args = args,
                                                    !.request = BuildRequest(id, args),
                                                    !.timeout = timeout,
                                                    !.armed = Deadline(timeout, clientTimeout)]]
    /\ UNCHANGED <<registry, pc, path, request, authHeader, validatorCalls, authResult,
                   invoked, response, wire, thrown, inFlight, extra, delivered, buffer,
                   yielded, reader, clientTimeout>>

\* fetch resolves with the status line and the headers of the response to
\* this call's POST
FetchResolve(c, ok) ==
    /\ calls[c].state = "awaitFetch"
    /\ calls' = [calls EXCEPT ![c] =
                    IF ok THEN [calls[c] EXCEPT !.state = "awaitBody"]
                    ELSE SettleCall(calls[c], Rejected(PlainError("HTTP error", "500")))]
    /\ UNCHANGED <<registry, pc, path, request, authHeader, validatorCalls, authResult,
                   invoked, response, wire, thrown, inFlight, extra, delivered, buffer,
                   yielded, reader, clientTimeout>>

\* fetch rejects: the connection failed
FetchReject(c) ==
    /\ calls[c].state = "awaitFetch"
    /\ calls' = [calls EXCEPT ![c] =
                    SettleCall(calls[c], Rejected(ClientError("TypeError", "fetch failed", "",
                                                              Undefined, Undefined)))]
    /\ UNCHANGED <<registry, pc, path, request, authHeader, validatorCalls, authResult,
                   invoked, response, wire, thrown, inFlight, extra, delivered, buffer,
                   yielded, reader, clientTimeout>>

\* response.json() settles with the body of the response to this call's POST
BodyArrive(c, b) ==
    /\ calls[c].state = "awaitBody"
    /\ calls' = [calls EXCEPT ![c] =
                    SettleCall([calls[c] EXCEPT !.received = Some(b)],
                               Settle(b, calls[c].id))]
    /\ UNCHANGED <<registry, pc, path, request, authHeader, validatorCalls, authResult,
                   invoked, response, wire, thrown, inFlight, extra, delivered, buffer,
                   yielded, reader, clientTimeout>>

\* the signal of AbortSignal.timeout aborts: a fetch or a body read that is
\* pending rejects, and a call that is over has nothing listening
OnAbortAlways(call, abortName, default) ==
    SettleCall([call EXCEPT !.aborted = TRUE], CaughtAbort(abortName, call.timeout, default))

OnAbort(call, abortName, default) ==
    IF IsPending(call)
      THEN SettleCall([call EXCEPT !.aborted = TRUE],
                      CaughtAbort(abortName, call.timeout, default))
      ELSE [call EXCEPT !.aborted = TRUE]

Timer(c, abortName) ==
    /\ calls[c].state # "idle"
    /\ ~calls[c].aborted
    /\ calls' = [calls EXCEPT ![c] = OnAbort(calls[c], abortName, clientTimeout)]
    /\ UNCHANGED <<registry, pc, path, request, authHeader, validatorCalls, authResult,
                   invoked, response, wire, thrown, inFlight, extra, delivered, buffer,
                   yielded, reader, clientTimeout>>

\* the POST of a call reaches the server of the endpoint, which has the body
\* parsed and calls handleRequest with it; the client has no token
Deliver(c) ==
    /\ calls[c].state = "awaitFetch"
    /\ request = NullRequest
    /\ HandleRequestStart(JsonOf(calls[c].request), Undefined)

\* the caller gives a pending call up: sendRequest takes no signal and the
\* client has no operation that cancels, so no code of the client runs
Cancel(c) ==
    /\ IsPending(calls[c])
    /\ ~calls[c].canceled
    /\ calls' = [calls EXCEPT ![c].canceled = TRUE]
    /\ UNCHANGED <<registry, pc, path, request, authHeader, validatorCalls, authResult,
                   invoked, response, wire, thrown, inFlight, extra, delivered, buffer,
                   yielded, reader, clientTimeout>>

\* the calls that a response arriving on the exchange of call c resumes: the
\* await of that call's own fetch, when it is still pending
ListenersById(c) ==
    {d \in Calls : IsPending(calls[d]) /\ calls[d].id = calls[c].id}

Listeners(c) ==
    {d \in Calls : IsPending(calls[d]) /\ d = c}

\* the server's answer to a call whose fetch was aborted arrives: the
\* exchange is closed and no await is left on it
LateResponse(c) ==
    /\ calls[c].state = "settled"
    /\ calls[c].aborted
    /\ calls[c].received = None
    /\ ~calls[c].late
    /\ LET b == NominalSuccess(calls[c].id)
       IN  calls' = [d \in Calls |->
                       IF d \in Listeners(c)
                         THEN SettleCall([calls[d] EXCEPT !.received = Some(b)],
                                         Settle(b, calls[d].id))
                       ELSE IF d = c THEN [calls[c] EXCEPT !.late = TRUE]
                       ELSE calls[d]]
    /\ UNCHANGED <<registry, pc, path, request, authHeader, validatorCalls, authResult,
                   invoked, response, wire, thrown, inFlight, extra, delivered, buffer,
                   yielded, reader, clientTimeout>>

-----------------------------------------------------------------------------
(* The specification *)

\* options.enableAuth: left out, true or false
EnableAuthOptions == {Absent, "true", "false"}

\* line 129 as options.enableAuth !== false, the form of the other switches
EnableAuthUnlessFalse(option) == option # "false"

\* line 129: this.enableAuth = options.enableAuth === true
EnableAuthOf(option) == option = "true"

\* new ARCServer(options), with options.enableAuth among enableAuthOptions
InitServerWith(enableAuthOptions) ==
    /\ handlers = [m \in RegMethods |-> {}]
    /\ requiredScopes \in {DefaultRequiredScopes, EmptyRequiredScopes}
    /\ enableAuthOption \in enableAuthOptions
    /\ enableAuth = EnableAuthOf(enableAuthOption)
    /\ hasValidator \in BOOLEAN
    /\ pc = "idle"
    /\ path = "none"
    /\ request = NullRequest
    /\ authHeader = Undefined
    /\ validatorCalls = <<>>
    /\ authResult = None
    /\ invoked = <<>>
    /\ response = <<>>
    /\ wire = <<>>
    /\ thrown = <<>>
    /\ inFlight = 0
    /\ extra = <<>>
    /\ delivered = 0
    /\ buffer = <<>>
    /\ yielded = <<>>
    /\ reader = "none"

\* new ARCServer(options) with enableAuth left out or true
InitServer == InitServerWith({Absent, "true"})

\* a server, and a client made with new ARCClient({endpoint, requestAgent})
\* that has sent nothing
Init ==
    /\ InitServer
    /\ calls = [c \in Calls |-> NoCall]
    /\ clientTimeout = ClientTimeoutOf(Undefined)

\* handleRequest, called by the embedder or by the middleware
Next ==
    \/ \E m \in RegMethods, h \in HandlerIds : RegisterHandler(m, h)
    \/ \E m \in RegMethods, s \in ScopeArrays : SetRequiredScopes(m, s)
    \/ \E r \in Requests, hdr \in AuthHeaders : HandleRequestStart(r, hdr)
    \/ \E decision \in AuthResults, production \in BOOLEAN : AuthResolve(decision, production)
    \/ \E exc \in Exceptions, production \in BOOLEAN : AuthReject(exc, production)
    \/ \E result \in HandlerResults \cup {ProtoResult} : HandlerReturn(result)
    \/ \E exc \in Exceptions, production \in BOOLEAN : HandlerThrow(exc, production)
    \/ Forget

Spec == Init /\ [][Next]_vars

\* the Express middleware, with its event-stream branch
NextMiddleware ==
    \/ \E m \in RegMethods, h \in HandlerIds : RegisterHandler(m, h)
    \/ \E m \in RegMethods, s \in ScopeArrays : SetRequiredScopes(m, s)
    \/ \E r \in MiddlewareRequests, hdr \in AuthHeaders, accept \in AcceptHeaders,
          production \in BOOLEAN : Receive(r, hdr, accept, production)
    \/ \E decision \in AuthResults, production \in BOOLEAN : AuthResolve(decision, production)
    \/ \E exc \in Exceptions, production \in BOOLEAN : AuthReject(exc, production)
    \/ \E result \in HandlerResults \cup {ProtoResult} : HandlerReturn(result)
    \/ \E exc \in Exceptions, production \in BOOLEAN : HandlerThrow(exc, production)
    \/ \E result \in HandlerResults : StreamHandlerReturn(result)
    \/ \E exc \in Exceptions, production \in BOOLEAN : StreamHandlerThrow(exc, production)
    \/ StreamFragment
    \/ StreamFinish
    \/ \E exc \in Exceptions, production \in BOOLEAN : StreamProducerThrow(exc, production)
    \/ Forget

SpecMiddleware == Init /\ [][NextMiddleware]_vars

\* the task.create requests a client sends to this agent
TaskCreateRequests ==
    {r \in ObjectRequests :
        /\ r = [NominalRequest EXCEPT !.method = "task.create", !.id = r.id,
                                      !.traceId = r.traceId]
        /\ r.id # Absent}

\* task.create requests served by a handler that returns a task record
NextTaskCreate ==
    \/ \E m \in RegMethods, h \in HandlerIds : RegisterHandler(m, h)
    \/ \E r \in TaskCreateRequests, hdr \in AuthHeaders : HandleRequestStart(r, hdr)
    \/ \E decision \in AuthResults, production \in BOOLEAN : AuthResolve(decision, production)
    \/ HandlerReturn(TaskRecord)
    \/ Forget

SpecTaskCreate == Init /\ [][NextTaskCreate]_vars

\* new ARCServer({agentId, enableAuth: true, authValidator})
InitReconfigure ==
    /\ Init
    /\ enableAuth
    /\ hasValidator
    /\ requiredScopes = DefaultRequiredScopes

\* registerHandler(m, h1) before the request arrives
RegisterBeforeRequest(m) == pc = "idle" /\ RegisterHandler(m, "h1")

\* registerHandler and setRequiredScopes called while handleRequest is
\* suspended at the await of line 272
RegisterWhileSuspended(m, h) == pc = "awaitAuth" /\ RegisterHandler(m, h)
SetScopesWhileSuspended(m, s) == pc = "awaitAuth" /\ SetRequiredScopes(m, s)

\* one request on a server that is reconfigured only while the request waits
\* for the validator
NextReconfigure ==
    \/ \E m \in RegMethods : RegisterBeforeRequest(m)
    \/ \E r \in Requests, hdr \in AuthHeaders : HandleRequestStart(r, hdr)
    \/ \E m \in RegMethods, h \in HandlerIds : RegisterWhileSuspended(m, h)
    \/ \E m \in RegMethods, s \in ScopeArrays : SetScopesWhileSuspended(m, s)
    \/ \E decision \in AuthResults, production \in BOOLEAN : AuthResolve(decision, production)
    \/ \E exc \in Exceptions, production \in BOOLEAN : AuthReject(exc, production)
    \/ \E result \in HandlerResults \cup {ProtoResult} : HandlerReturn(result)
    \/ \E exc \in Exceptions, production \in BOOLEAN : HandlerThrow(exc, production)

SpecReconfigure == InitReconfigure /\ [][NextReconfigure]_vars

\* handleRequest on a server made with any enableAuth option
InitOptions ==
    /\ InitServerWith(EnableAuthOptions)
    /\ calls = [c \in Calls |-> NoCall]
    /\ clientTimeout = ClientTimeoutOf(Undefined)

SpecOptions == InitOptions /\ [][Next]_vars

\* new ARCServer({agentId}): the options left out
InitStream ==
    /\ Init
    /\ ~enableAuth
    /\ ~hasValidator
    /\ requiredScopes = DefaultRequiredScopes

\* one streamed chat from the request to the consumer of the client's reader
NextStream ==
    \/ \E h \in HandlerIds : RegisterHandler("chat.start", h)
    \/ \E production \in BOOLEAN :
          Receive(StreamingRequest, Undefined, "text/event-stream", production)
    \/ StreamHandlerReturn("chatStream")
    \/ StreamFragment
    \/ StreamFinish
    \/ \E exc \in Exceptions, production \in BOOLEAN : StreamProducerThrow(exc, production)
    \/ StreamCancel
    \/ Drain
    \/ \E k \in 1..MaxBody : ReadChunk(k)
    \/ ReadEnd
    \/ TransportExtra

SpecStream == InitStream /\ [][NextStream]_vars

\* one chat.start on the streaming branch, whatever its handler returns, from
\* the request to the consumer of the client's reader
NextStreamResult ==
    \/ \E h \in HandlerIds : RegisterHandler("chat.start", h)
    \/ \E production \in BOOLEAN :
          Receive(StreamingRequest, Undefined, "text/event-stream", production)
    \/ \E result \in HandlerResults : StreamHandlerReturn(result)
    \/ StreamFragment
    \/ StreamFinish
    \/ Drain
    \/ \E k \in 1..MaxBody : ReadChunk(k)
    \/ ReadEnd

SpecStreamResult == InitStream /\ [][NextStreamResult]_vars

\* new ARCClient(options), with or without options.timeout
InitClient ==
    /\ InitServer
    /\ ~enableAuth
    /\ ~hasValidator
    /\ requiredScopes = DefaultRequiredScopes
    /\ calls = [c \in Calls |-> NoCall]
    /\ \E option \in TimeoutOptions : clientTimeout = ClientTimeoutOf(option)

\* one call of sendRequest, with the exchange of its fetch
NextClient ==
    \/ \E id \in RequestIds, timeout \in TimeoutOptions : SendRequest(1, id, timeout, NominalArgs)
    \/ \E ok \in BOOLEAN : FetchResolve(1, ok)
    \/ FetchReject(1)
    \/ \E b \in ResponseBodies : BodyArrive(1, b)
    \/ \E abortName \in AbortNames : Timer(1, abortName)
    \/ Cancel(1)
    \/ LateResponse(1)

SpecClient == InitClient /\ [][NextClient]_vars

\* the timer of AbortSignal.timeout runs out
SpecClientFair ==
    SpecClient /\ WF_vars(\E abortName \in AbortNames : Timer(1, abortName))

\* one call of sendRequest with any arguments, up to the handler on the server
NextRoundTrip ==
    \/ \E m \in RegMethods, h \in HandlerIds : RegisterHandler(m, h)
    \/ \E id \in RequestIds, args \in ClientArgs : SendRequest(1, id, Undefined, args)
    \/ Deliver(1)
    \/ \E result \in HandlerResults : HandlerReturn(result)

SpecRoundTrip == InitClient /\ [][NextRoundTrip]_vars

\* the bodies of this server's answers to the calls in flight
AnswerBodies ==
    {NominalSuccess(id) : id \in RequestIds} \cup {NominalFailure(id) : id \in RequestIds}

\* several calls of sendRequest in flight, each with the exchange of its own
\* fetch, and answers that carry the id of any of them
NextConcurrent ==
    \/ \E c \in Calls, id \in RequestIds : SendRequest(c, id, Undefined, NominalArgs)
    \/ \E c \in Calls, ok \in BOOLEAN : FetchResolve(c, ok)
    \/ \E c \in Calls : FetchReject(c)
    \/ \E c \in Calls, b \in AnswerBodies : BodyArrive(c, b)
    \/ \E c \in Calls, abortName \in AbortNames : Timer(c, abortName)
    \/ \E c \in Calls : LateResponse(c)

SpecConcurrent == InitClient /\ [][NextConcurrent]_vars

-----------------------------------------------------------------------------
(* Vocabulary of the properties *)

\* the request has every required field and the supported version
PassesStructuralValidation(r) ==
    /\ r.shape = "object"
    /\ \A f \in {"arc", "id", "method", "requestAgent", "targetAgent", "params"} :
          FieldOf(r, f) # Absent
    /\ r.arc = "1.0"

\* a handler was registered under the name with registerHandler
IsRegistered(method) == method \in RegMethods /\ handlers[method] # {}

Answered == pc = "done" /\ response # <<>>
TheResponse == response[1]
ErrorCode == (The(TheResponse.error)).code
ErrorDetails == (The(TheResponse.error)).details

ResultIsSet(resp) == resp.result \notin {Null, Undefined, Absent}
ErrorIsSet(resp) == resp.error # None

\* security errors are -44000 to -44099
IsSecurityCode(code) == code <= -44000 /\ code >= -44099

\* the request got past validation, the target check and the method lookup
ReachedAuthorization ==
    /\ path = "unary"
    /\ pc \in {"awaitAuth", "awaitHandler", "done"}
    /\ PassesStructuralValidation(request)
    /\ request.targetAgent = AgentId
    /\ IsRegistered(request.method)

-----------------------------------------------------------------------------
(* Properties *)

\* C1: every response handleRequest returns to a structurally valid request
\* has the request's id, on the success path and on every error path.
C1_ResponseIdEqualsRequestId ==
    (path = "unary" /\ Answered /\ PassesStructuralValidation(request))
        => TheResponse.id = request.id

\* C2: every response handleRequest returns has exactly one of result and
\* error set.
C2_ExactlyOneOfResultAndError ==
    (path = "unary" /\ Answered)
        => (ResultIsSet(TheResponse) /\ ~ErrorIsSet(TheResponse))
            \/ (~ResultIsSet(TheResponse) /\ ErrorIsSet(TheResponse))

\* C3: on the event-stream branch a handler is invoked only for a request
\* that passes structural validation and is addressed to this agent.
C3_StreamingValidatesBeforeHandler ==
    (path = "stream" /\ invoked # <<>>)
        => PassesStructuralValidation(request) /\ request.targetAgent = AgentId

\* C4: on the event-stream branch with authorization enabled, a handler is
\* invoked only after the validator accepted the bearer credential with every
\* scope the method requires.
C4_StreamingAuthorizesBeforeHandler ==
    (path = "stream" /\ enableAuth /\ hasValidator /\ invoked # <<>>)
        => /\ validatorCalls # <<>>
           /\ authResult # None
           /\ (The(authResult)).authenticated
           /\ HasOwn(requiredScopes, request.method)
                => HasRequiredScopes(The(requiredScopes[request.method]), The(authResult))

\* C5: with authorization enabled and a method that has required scopes, a
\* request without a bearer credential, or whose token the validator reports
\* as not authenticated, never reaches its handler and is answered with a
\* security error.
C5_UnauthenticatedIsRejected ==
    (/\ ReachedAuthorization
     /\ pc \in {"awaitHandler", "done"}
     /\ enableAuth
     /\ HasOwn(requiredScopes, request.method)
     /\ \/ ~IsBearer(authHeader)
        \/ (authResult # None /\ ~(The(authResult)).authenticated))
        => /\ invoked = <<>>
           /\ Answered
           /\ ErrorIsSet(TheResponse)
           /\ IsSecurityCode(ErrorCode)

\* C6: with authorization enabled, a decision whose scopes lack a scope the
\* method requires is answered with -44003, the details listing the required
\* and the granted scopes, and the handler is not invoked.
C6_InsufficientScopeIsRejected ==
    (/\ ReachedAuthorization
     /\ pc \in {"awaitHandler", "done"}
     /\ enableAuth
     /\ authResult # None
     /\ HasOwn(requiredScopes, request.method)
     /\ ~HasRequiredScopes(The(requiredScopes[request.method]), The(authResult)))
        => /\ invoked = <<>>
           /\ Answered
           /\ ErrorIsSet(TheResponse)
           /\ ErrorCode = CodeInsufficientScope
           /\ ErrorDetails.requiredScopes = Some(The(requiredScopes[request.method]))
           /\ ErrorDetails.providedScopes = (The(authResult)).scopes

\* C7: a request that fails structural validation is answered by
\* handleRequest with an error envelope, and no handler is invoked for it.
C7_StructuralFailureIsAnswered ==
    (path = "unary" /\ ~PassesStructuralValidation(request))
        => /\ Answered
           /\ invoked = <<>>
           /\ ErrorIsSet(TheResponse)
           /\ ~ResultIsSet(TheResponse)
           /\ ErrorCode \in {CodeInvalidRequest, CodeInvalidVersion}

\* C7 happens: a request of an unsupported version, otherwise addressed to
\* this agent with a registered method, has been answered.
C7_Witness ==
    /\ path = "unary"
    /\ Answered
    /\ request.shape = "object"
    /\ request.arc = "2.0"
    /\ request.targetAgent = AgentId
    /\ IsRegistered(request.method)
    /\ ErrorCode = CodeInvalidVersion

\* C8: a structurally valid request for another agent is answered with
\* -41001 and a null result, and no handler is invoked for it.
C8_WrongTargetIsAgentNotFound ==
    (path = "unary" /\ PassesStructuralValidation(request) /\ request.targetAgent # AgentId)
        => /\ Answered
           /\ invoked = <<>>
           /\ ErrorIsSet(TheResponse)
           /\ ErrorCode = CodeAgentNotFound
           /\ TheResponse.result = Null

\* C8 happens: a request for agent-2 whose method is registered here has
\* been answered.
C8_Witness ==
    /\ path = "unary"
    /\ Answered
    /\ PassesStructuralValidation(request)
    /\ request.targetAgent = "agent-2"
    /\ IsRegistered(request.method)
    /\ ErrorCode = CodeAgentNotFound

\* C9: a structurally valid request for this agent whose method has no
\* registered handler is answered with -32601, the details listing exactly
\* the registered method names.
C9_UnregisteredIsMethodNotFound ==
    (/\ path = "unary"
     /\ PassesStructuralValidation(request)
     /\ request.targetAgent = AgentId
     /\ ~IsRegistered(request.method))
        => /\ Answered
           /\ invoked = <<>>
           /\ ErrorIsSet(TheResponse)
           /\ ErrorCode = CodeMethodNotFound
           /\ ErrorDetails.supportedMethods = Some({m \in RegMethods : handlers[m] # {}})

\* C10: the response reports the first failing check in the order structural
\* validation, target, method lookup, authorization, and the validator is
\* not called for a request that fails one of the first three.
C10_FirstFailingCheckIsReported ==
    (path = "unary" /\ pc # "idle")
        => /\ ~PassesStructuralValidation(request)
                => /\ Answered
                   /\ ErrorCode \in {CodeInvalidRequest, CodeInvalidVersion}
                   /\ validatorCalls = <<>>
                   /\ invoked = <<>>
           /\ (PassesStructuralValidation(request) /\ request.targetAgent # AgentId)
                => /\ Answered
                   /\ ErrorCode = CodeAgentNotFound
                   /\ validatorCalls = <<>>
                   /\ invoked = <<>>
           /\ (/\ PassesStructuralValidation(request)
               /\ request.targetAgent = AgentId
               /\ ~IsRegistered(request.method))
                => /\ Answered
                   /\ ErrorCode = CodeMethodNotFound
                   /\ validatorCalls = <<>>
                   /\ invoked = <<>>
           /\ (/\ ReachedAuthorization
               /\ authResult # None
               /\ ScopeCheck(requiredScopes, request.method, The(authResult)) = "insufficient")
                => /\ Answered
                   /\ ErrorCode = CodeInsufficientScope
                   /\ invoked = <<>>

\* the raised value already has a code and a message (line 432)
HasCodeAndMessage(exc) == exc.kind = "arc"

\* C11: handleRequest never throws: when the handler or the validator raises,
\* the caller gets an error envelope; a raised value that has a code and a
\* message is passed through with its code, message and details, every other
\* raised value is mapped to -32603.
C11_RaisedValueBecomesErrorEnvelope ==
    (path = "unary" /\ thrown # <<>>)
        => /\ Answered
           /\ ErrorIsSet(TheResponse)
           /\ ~ResultIsSet(TheResponse)
           /\ LET exc == thrown[1].exc IN
              IF HasCodeAndMessage(exc)
              THEN /\ ErrorCode = exc.code
                   /\ (The(TheResponse.error)).message = <<exc.message, "">>
                   /\ ErrorDetails = [NoDetails EXCEPT !.other = exc.details]
              ELSE ErrorCode = CodeInternal

\* two raised values that differ in nothing but internal detail: both are
\* Error instances without a code, whatever their message, name and stack
SameButInternalDetail(e1, e2) == e1.kind = "Error" /\ e2.kind = "Error"

\* C12: outside a diagnostic mode (NODE_ENV is 'production'), the error
\* object answered for an uncaught handler exception is the one any other
\* exception that differs only in message, name and stack would have got.
C12_WireErrorIndependentOfInternalDetail ==
    (/\ path = "unary"
     /\ Answered
     /\ invoked # <<>>
     /\ thrown # <<>>
     /\ thrown[1].production)
        => \A other \in Exceptions :
              SameButInternalDetail(thrown[1].exc, other)
                  => TheResponse.error = Some(CreateErrorFromException(other, TRUE))

\* the response has a traceId: the property is there and is not undefined
CarriesTraceId(resp) == resp.traceId \notin {Absent, Undefined}

\* C13: the response carries a traceId if and only if the request has one,
\* and then the request's, on the success path and on every error path.
C13_TraceIdIsEchoed ==
    (path = "unary" /\ Answered /\ request.shape = "object")
        => /\ CarriesTraceId(TheResponse) <=> request.traceId # Absent
           /\ CarriesTraceId(TheResponse) => TheResponse.traceId = request.traceId

\* C14: every response to a request that has a requestAgent names the server
\* as responseAgent and the request's requestAgent as targetAgent, on the
\* success path and on every error path.
C14_AgentsAreMirrored ==
    (/\ path = "unary"
     /\ Answered
     /\ request.shape = "object"
     /\ request.requestAgent # Absent)
        => /\ TheResponse.responseAgent = AgentId
           /\ TheResponse.targetAgent = request.requestAgent

-----------------------------------------------------------------------------
(* Properties of the event stream *)

\* the encoder ran: the handler returned a streamable result
EncoderRan ==
    /\ path = "stream"
    /\ invoked # <<>>
    /\ response = <<>>
    /\ pc \in {"streaming", "done", "canceled"}

\* the producer yielded its fragments and finished, and res.end() was called
ProducerFinished == EncoderRan /\ pc = "done" /\ thrown = <<>>

\* the data of the frames, in the order they were written
Payloads(frames) == [i \in 1..Len(frames) |-> Payload(frames[i])]

\* C15: when the producer has yielded its N fragments and finished, and the
\* client's reader has read the body to its end, over whatever chunks, the
\* consumer has observed the N partial frames, then the terminal frame, and
\* nothing else.
C15_ConsumerObservesWholeStream ==
    (ProducerFinished /\ extra = <<>> /\ reader = "released")
        => yielded = Payloads(wire)

\* the encoder is over: its generator returned, or its consumer stopped it
EncoderEnded == EncoderRan /\ pc \in {"done", "canceled"}

TerminalFrames(frames) == {i \in 1..Len(frames) : frames[i].done}

\* C16: when the encoder is over, because the producer finished, because the
\* consumer canceled or because the producer raised, the frames it emitted
\* hold exactly one frame with done: true, and that frame is the last.
C16_ExactlyOneTerminalFrame ==
    EncoderEnded
        => /\ Cardinality(TerminalFrames(wire)) = 1
           /\ TerminalFrames(wire) = {Len(wire)}

\* the producer raised and the stream was ended
ProducerRaised == EncoderRan /\ pc = "done" /\ thrown # <<>>

\* C17: when the producer has raised, the terminal frame of the stream, the
\* one with done: true, carries the error object and no terminal status.
C17_TerminalFrameCarriesError ==
    ProducerRaised
        => \E i \in TerminalFrames(wire) :
              /\ wire[i].error # None
              /\ wire[i].status = Absent

\* where in the stream the frame with this data is
PositionOf(data) == CHOOSE k \in 1..Len(wire) : Payload(wire[k]) = data

\* C18: the encoder puts the k-th fragment, alone, in the k-th frame; every
\* frame the consumer observes is the data of one frame of the stream, never
\* of two, and the frames are observed in the order they were emitted.
C18_FramesObservedInEmissionOrder ==
    (EncoderRan /\ extra = <<>>)
        => /\ \A k \in 1..Len(wire) : wire[k].event = "stream" => wire[k].part = k
           /\ \A i \in 1..Len(yielded) :
                 \E k \in 1..Len(wire) : yielded[i] = Payload(wire[k])
           /\ \A i, j \in 1..Len(yielded) :
                 i < j => PositionOf(yielded[i]) < PositionOf(yielded[j])

\* C19: once the reader has yielded the terminal frame, the one with
\* done: true, it has stopped: it has released the reader and it yields
\* nothing after that frame, whatever the transport delivers then.
C19_ReaderStopsAtTerminalFrame ==
    \A i \in 1..Len(yielded) :
        yielded[i].done => (i = Len(yielded) /\ reader = "released")

\* C20: while the producer is being asked for fragments, at most one frame
\* is written and not drained: the producer is asked for a fragment only
\* when the socket has drained the frame written before.
C20_AtMostOneFrameInFlight ==
    (EncoderRan /\ pc = "streaming") => inFlight <= 1

\* C21: every frame written for a stream, partial, error or terminal, has a
\* chatId, and all frames of the stream have the same, the frames the
\* middleware writes when the handler throws included.
C21_EveryFrameCarriesChatId ==
    path = "stream"
        => \A i \in 1..Len(wire) :
              /\ wire[i].chatId \notin {Absent, Undefined}
              /\ wire[i].chatId = wire[1].chatId

\* the outcome of a call, as its caller sees it
Fulfilled(call) == call.outcome.kind = "resolved"

IsTimeoutError(error) ==
    \/ error.name = "TimeoutError"
    \/ error.message = "Request timed out after seconds"

TimedOut(call) == call.outcome.kind = "rejected" /\ IsTimeoutError(call.outcome.error)
Failed(call) == call.outcome.kind = "rejected" /\ ~IsTimeoutError(call.outcome.error)

\* a member of a response is set when it is there and is not null
IsSet(v) == v \notin {Absent, Null}
BothSet(b) == b.shape = "object" /\ IsSet(b.result) /\ IsSet(b.error)
NeitherSet(b) == b.shape = "object" /\ ~IsSet(b.result) /\ ~IsSet(b.error)

\* C22: a response in which both result and error are set, or neither is, is
\* rejected by validateResponse and never fulfills the call it answers.
C22_ResultAndErrorAreExclusive ==
    \A c \in Calls :
        \A b \in calls[c].received :
            BothSet(b) \/ NeitherSet(b)
                => /\ ~Fulfilled(calls[c])
                   /\ ValidateResponse(b, calls[c].id).message # ""

\* a response that is not the answer to the request with this id: another id,
\* another version, or one of arc, id, responseAgent, targetAgent left out
IsForeignOrMalformed(b, requestId) ==
    /\ b.shape = "object"
    /\ \/ b.id # requestId
       \/ b.arc # "1.0"
       \/ Absent \in {b.arc, b.id, b.responseAgent, b.targetAgent}

\* C23: a response whose id is not the request's, whose version is not "1.0"
\* or that lacks arc, id, responseAgent or targetAgent is never delivered as
\* a result: the call fails.
C23_ForeignResponseIsNeverDelivered ==
    \A c \in Calls :
        \A b \in calls[c].received :
            IsForeignOrMalformed(b, calls[c].id)
                => ~Fulfilled(calls[c]) /\ Failed(calls[c])

\* a call was answered with the well-formed answer to another request
C23_Witness ==
    \E c \in Calls :
        \E b \in calls[c].received :
            /\ b.id \in RequestIds \ {calls[c].id}
            /\ b = NominalSuccess(b.id)
            /\ Failed(calls[c])

IsSettled(call) == call.state = "settled"

\* C24: a call of sendRequest comes to one outcome, fulfilled, failed or
\* timed out, which is reported once, and nothing that happens later (the
\* timer, a late response) changes it.
C24_OneOutcomeReportedOnce ==
    /\ [](\A c \in Calls :
            /\ calls[c].completions <= 1
            /\ IsSettled(calls[c])
                 => /\ calls[c].completions = 1
                    /\ Fulfilled(calls[c]) \/ Failed(calls[c]) \/ TimedOut(calls[c]))
    /\ [][\A c \in Calls :
            IsSettled(calls[c])
                => /\ calls'[c].outcome = calls[c].outcome
                   /\ calls'[c].completions = calls[c].completions]_vars
    /\ (calls[1].state # "idle") ~> IsSettled(calls[1])

\* the timer ran out on a call that had been fulfilled
C24_Witness ==
    /\ Fulfilled(calls[1])
    /\ calls[1].aborted
    /\ calls[1].completions = 1

\* C25: a call is fulfilled only by a well-formed response with its id and
\* with a result member, never by one without a result, and a response with
\* an error fails the call with the error's code and details.
C25_FulfilledOnlyWithResult ==
    \A c \in Calls :
        /\ Fulfilled(calls[c])
             => \E b \in calls[c].received :
                   /\ b.shape = "object"
                   /\ ~IsForeignOrMalformed(b, calls[c].id)
                   /\ b.result # Absent
        /\ \A b \in calls[c].received :
              b.shape = "object" /\ ~IsForeignOrMalformed(b, calls[c].id) /\ IsSet(b.error)
                  => /\ Failed(calls[c])
                     /\ calls[c].outcome.error.code = ArcErrorCode
                     /\ calls[c].outcome.error.details = ArcErrorDetails

\* the deadline of a call: its timeout argument when one was given, and the
\* client's timeout otherwise
DeadlineOf(call) == IF call.timeout # Undefined THEN call.timeout ELSE clientTimeout

\* C26: a call that gets no response by its deadline (its own timeout when
\* one was given, the client's otherwise) ends timed out, which is not
\* failed, and stays so when a response arrives later.
C26_NoResponseByDeadlineTimesOut ==
    /\ [](\A c \in Calls : calls[c].state # "idle" => calls[c].armed = DeadlineOf(calls[c]))
    /\ [][\A c \in Calls :
            /\ IsPending(calls[c]) /\ calls'[c].aborted
                 => TimedOut(calls'[c]) /\ ~Failed(calls'[c])
            /\ TimedOut(calls[c]) => calls'[c].outcome = calls[c].outcome]_vars

\* C27: a call that its caller cancels while it is pending is over at once,
\* and a reply that arrives afterwards neither re-opens it nor delivers a
\* result.
C27_CanceledCallGetsNoResult ==
    \A c \in Calls :
        calls[c].canceled => ~IsPending(calls[c]) /\ ~Fulfilled(calls[c])

\* a response arrived on the exchange of call c in this step
ArrivesFor(c) ==
    \/ calls'[c].late /\ ~calls[c].late
    \/ calls'[c].received # calls[c].received

\* C28: with several calls in flight, a response settles only the call on
\* whose exchange it arrived: no call is fulfilled by a response with another
\* id, and a late or foreign response, one with the id of a newer call
\* included, changes no other call.
C28_ResponseCompletesOnlyItsOwnCall ==
    /\ [](\A c \in Calls :
            Fulfilled(calls[c]) => \E b \in calls[c].received : b.id = calls[c].id)
    /\ [][\A c \in Calls :
            ArrivesFor(c) => \A d \in Calls \ {c} : calls'[d] = calls[d]]_vars

\* the answer to a call that timed out arrived while a newer call with the
\* same id was pending, and the newer call was later fulfilled by its own
C28_Witness ==
    /\ TimedOut(calls[1])
    /\ calls[1].late
    /\ calls[2].id = calls[1].id
    /\ Fulfilled(calls[2])
    /\ calls[2].received = {NominalSuccess(calls[2].id)}

\* C29: the request the client builds for a method, a sender, a target and
\* params passes the server's structural validation, and a handler that is
\* called receives these params, and the method, the sender, the target, the
\* request id and the trace id of the call in its context.
C29_RequestRoundTrip ==
    request # NullRequest
        => /\ PassesStructuralValidation(request)
           /\ \A i \in 1..Len(invoked) :
                 /\ invoked[i].params = calls[1].args.params
                 /\ invoked[i].method = calls[1].args.method
                 /\ invoked[i].request_agent = calls[1].args.requestAgent
                 /\ invoked[i].target_agent = calls[1].args.targetAgent
                 /\ invoked[i].request_id = calls[1].id
                 /\ invoked[i].trace_id = calls[1].args.traceId

\* the names a request can dispatch on
MethodNames == RegMethods \cup ProtoNames

\* the authorization outcome of a method under a scope requirement
OutcomeWith(s, decision) ==
    IF decision.authenticated /\ ~HasRequiredScopes(s, decision) THEN "insufficient" ELSE "pass"

DeclaresNoScopes == ~HasOwn(requiredScopes, request.method)

\* the validator was not called, or it resolved to a decision
ValidatorDidNotThrow == validatorCalls = <<>> \/ authResult # None

AnsweredWithSecurityError ==
    /\ Answered
    /\ ErrorIsSet(TheResponse)
    /\ IsSecurityCode(ErrorCode)

BearerRequestServed ==
    /\ ReachedAuthorization
    /\ ~DeclaresNoScopes
    /\ hasValidator
    /\ IsBearer(authHeader)
    /\ pc # "awaitAuth"

IsMethodFormat(method) == method \in {"chat.start", "task.create"}

\* protocol errors are -45000 to -45099, and -32600 is the invalid request
IsProtocolCode(code) ==
    \/ code = CodeInvalidRequest
    \/ code <= -45000 /\ code >= -45099

\* C33: a request whose method is not of the form <domain>.<verb> is
\* answered with a protocol error before the registry is looked at: no
\* validator call, no handler call, and no answer that came from the lookup.
C33_MalformedMethodIsRejected ==
    (path = "unary" /\ PassesStructuralValidation(request) /\ ~IsMethodFormat(request.method))
        => /\ validatorCalls = <<>>
           /\ invoked = <<>>
           /\ Answered
           /\ ErrorIsSet(TheResponse)
           /\ IsProtocolCode(ErrorCode)

\* a call of registerHandler or of setRequiredScopes
IsRegistration ==
    \/ \E m \in RegMethods, h \in HandlerIds : RegisterHandler(m, h)
    \/ \E m \in RegMethods, s \in ScopeArrays : SetRequiredScopes(m, s)

TaskCreateAnswered ==
    /\ Answered
    /\ request.method = "task.create"
    /\ request.targetAgent = AgentId
    /\ Len(invoked) = 1
    /\ ~ErrorIsSet(TheResponse)

\* C35 as claimed: the task record the handler returned is answered as the
\* result {type: "task", task: record}, with the request's id and no error.
C35_TaskRecordIsWrapped ==
    TaskCreateAnswered
        => /\ TheResponse.id = request.id
           /\ TheResponse.error = None
           /\ TheResponse.result = TaskResultOf(TaskRecord)

\* C35: the task record the handler returned is answered as the result as it
\* is, with the request's id and no error.
C35_TaskRecordIsPassedThrough ==
    TaskCreateAnswered
        => /\ TheResponse.id = request.id
           /\ TheResponse.error = None
           /\ TheResponse.result = TaskRecord

C35_Witness ==
    /\ TaskCreateAnswered
    /\ TheResponse.result = TaskRecord
    /\ TheResponse.id = "r1"
    /\ invoked[1].handler = "h1"

\* the decision of the validator, when there is one, grants the scopes the
\* method requires
ScopesGranted ==
    \A decision \in authResult :
        ScopeCheck(requiredScopes, request.method, decision) = "pass"

\* the request passes structural validation, the target check and the lookup
\* of a registered handler
PassesEarlierChecks ==
    /\ PassesStructuralValidation(request)
    /\ request.targetAgent = AgentId
    /\ IsRegistered(request.method)

\* C36: handleRequest invokes at most one handler, at most once, and it is
\* the handler registered under the request's method; it does so exactly
\* when the request passes structural validation, the target check, the
\* method lookup and authorization.
C36_HandlerInvokedExactlyWhenChecksPass ==
    path = "unary"
        => /\ Len(invoked) <= 1
           /\ \A i \in 1..Len(invoked) :
                 /\ PassesEarlierChecks
                 /\ invoked[i].handler = The(handlers[request.method])
                 /\ ScopesGranted
           /\ (PassesEarlierChecks /\ pc # "awaitAuth" /\ ValidatorDidNotThrow /\ ScopesGranted)
                 => Len(invoked) = 1

\* what the reader yields when the transport delivers the frames one event
\* per chunk: the loop of part_005:218-236 run on each frame as it arrives
RECURSIVE OneEventPerChunk(_, _, _)
OneEventPerChunk(frames, text, out) ==
    IF frames = <<>>
    THEN out
    ELSE LET after == ProcessBuffer(text \o Encode(Head(frames)), out)
         IN  IF after.returned
             THEN after.yielded
             ELSE OneEventPerChunk(Tail(frames), after.buffer, after.yielded)

\* the stream is over and the reader has read the body to its end, or has
\* returned at the done event
BodyIsRead == path = "stream" /\ pc \in {"done", "canceled"} /\ reader = "released"

\* C37: the events the client's reader yields depend on the text of the body
\* only, not on the chunks the transport cuts it into: when the body is read,
\* over whatever chunks, the reader has yielded what it yields when the same
\* text arrives one event per chunk, and no complete event is dropped.
C37_YieldedEventsIndependentOfChunking ==
    BodyIsRead
        => /\ yielded = OneEventPerChunk(wire \o extra, <<>>, <<>>)
           /\ Len(yielded) >= Cardinality({i \in 1..Len(wire) : ~wire[i].done})

\* the request took the streaming branch and the handler's result was not
\* streamable: the middleware answered with res.json(response)
StreamAnsweredUnary == path = "stream" /\ invoked # <<>> /\ response # <<>>

\* C38: when a request takes the streaming path and the handler's result is
\* not streamable, the envelope the server sends reaches the consumer of the
\* client's reader: when the reader has read the body to its end the consumer
\* has been given something, never an empty stream with no terminal frame.
C38_UnaryResultReachesConsumer ==
    (StreamAnsweredUnary /\ reader = "released") => yielded # <<>>

\* handleRequest went on after the await of the validator
Resumed == path = "unary" /\ validatorCalls # <<>> /\ authResult # None

\* an envelope of this agent that does not have both a result and an error
IsEnvelope(resp) ==
    /\ resp.arc = "1.0"
    /\ resp.responseAgent = AgentId
    /\ ~(ResultIsSet(resp) /\ ErrorIsSet(resp))

=============================================================================
